---- MODULE Spec2Model ----
(***************************************************************************)
(* Voice authenticity detection: the feature assembler, the classifier     *)
(* wrapper, the explanation engine and the /detect request path.           *)
(*                                                                         *)
(* Numbers.  A Python float is a record [k, v]: k is "fin", "nan", "pinf"  *)
(* or "ninf", and v is the value of a finite float in thousandths (10.0 is *)
(* Fin(10000), 0.05 is Fin(50)).  A probability is an exact fraction       *)
(* [num, den].  A waveform is its number of samples and its peak absolute  *)
(* amplitude (thousandths); the sample values themselves are read only by  *)
(* the librosa analyzers, whose results are inputs of the model.           *)
(***************************************************************************)
EXTENDS Integers, Sequences, FiniteSets, TLC

VARIABLES
    pc,           \* position of the call or request: "idle", "extracted", "predicted",
                  \* "explained", "responded", "failed"
    wave,         \* the decoded waveform handed to extract_features, and its sample rate
    lib,          \* what the librosa calls returned inside extract_features
    called,       \* the analyzers extract_features invoked
    features,     \* the mapping extract_features returned (NoValue before)
    prediction,   \* what classifier.predict returned (NoValue before)
    explanation,  \* what generate_explanation returned (<<>> before)
    err,          \* the exception the last call raised ("none" if it returned)
    clf,          \* the VoiceClassifier object of the offline process (NoValue before construction)
    disk,         \* the artifact at the model path (NoValue when no file)
    srv,          \* the classifier object obtained by loading the artifact (NoValue before)
    savedFrom,    \* the classifier object whose save wrote the artifact now on disk
    response,     \* the body the endpoint sent (NoValue before)
    shortPred,    \* how many too-short clips were predicted since the load, and the
                  \* first answer
    language,     \* what detect_language returned ("" before)
    threads       \* the requests the serving process is handling at once: for each
                  \* handler thread its position and its local variables

reqVars == <<wave, lib, called, features, prediction, explanation, response>>
clsVars == <<clf, disk, srv, savedFrom>>
extVars == <<language, threads>>
vars == <<pc, err, reqVars, clsVars, shortPred, extVars>>

NoValue == [none |-> TRUE]

(***************************************************************************)
(* Floats                                                                  *)
(***************************************************************************)
Fin(n) == [k |-> "fin", v |-> n]
NaN == [k |-> "nan", v |-> 0]
PInf == [k |-> "pinf", v |-> 0]
NInf == [k |-> "ninf", v |-> 0]
NonFinite == {NaN, PInf, NInf}

\* np.isnan(v), np.isinf(v)
isnan(x) == x.k = "nan"
isinf(x) == x.k \in {"pinf", "ninf"}
IsFinite(x) == x.k = "fin"

\* a < b on floats: every comparison with NaN is False
FLess(a, b) ==
    /\ ~isnan(a)
    /\ ~isnan(b)
    /\ \/ a.k = "ninf" /\ b.k # "ninf"
       \/ a.k = "fin" /\ b.k = "pinf"
       \/ a.k = "fin" /\ b.k = "fin" /\ a.v < b.v

\* a > b on floats
FGreater(a, b) == FLess(b, a)

(***************************************************************************)
(* The feature schema                                                      *)
(***************************************************************************)
PitchKeys == <<"pitch_mean", "pitch_std", "pitch_delta_std">>
SpectralKeys == <<"centroid_mean", "centroid_std", "rolloff_std", "bandwidth_std",
                  "spectral_flux_std">>
TemporalKeys == <<"energy_mean", "energy_std", "energy_delta_std">>
HarmonicKeys == <<"hnr">>

\* the keys in the order default_features lists them
SchemaOrder == PitchKeys \o SpectralKeys \o TemporalKeys \o HarmonicKeys

Range(s) == {s[i] : i \in DOMAIN s}

Schema == Range(SchemaOrder)

\* defaults of 1.0
default_features_ones == [k \in {"pitch_mean", "pitch_std", "pitch_delta_std", "centroid_mean",
                                 "centroid_std", "rolloff_std", "bandwidth_std",
                                 "spectral_flux_std", "energy_mean", "energy_std",
                                 "energy_delta_std", "hnr"} |-> Fin(1000)]

\* default_features(): every key of the schema, every value 0.0
default_features == [k \in Schema |-> Fin(0)]

\* d.update(e) on dicts seen as mappings
Update(d, e) ==
    [k \in (DOMAIN d) \cup (DOMAIN e) |-> IF k \in DOMAIN e THEN e[k] ELSE d[k]]

EmptyDict == [k \in {} |-> Fin(0)]

(***************************************************************************)
(* Audio loading and normalization                                         *)
(***************************************************************************)
\* load_audio on an already decoded array: np.max of an empty array raises
\* ValueError; a silent clip (peak 0) is left as it is, any other is divided
\* by its peak
load_audio(w, target_sr) ==
    IF w.n = 0
    THEN [err |-> "ValueError", y |-> w, sr |-> target_sr]
    ELSE [err |-> "none",
          y |-> [n |-> w.n,
                 peak |-> IF w.peak > 0 THEN (w.peak * 1000) \div w.peak ELSE w.peak],
          sr |-> target_sr]

(***************************************************************************)
(* The four analyzers.  l is what librosa computed on the waveform:        *)
(* l.f0n valid pitch frames, l.stat[k] the float the numpy reduction for   *)
(* key k gave, l.hE = 0 iff the harmonic component has zero energy.        *)
(***************************************************************************)
\* the least number of valid pitch frames pitch_features accepts
MinPitchFrames == 10

pitch_features(l) ==
    IF l.f0n < MinPitchFrames
    THEN [k \in Range(PitchKeys) |-> Fin(0)]
    ELSE [k \in Range(PitchKeys) |-> l.stat[k]]

spectral_features(l) == [k \in Range(SpectralKeys) |-> l.stat[k]]

temporal_features(l) == [k \in Range(TemporalKeys) |-> l.stat[k]]

\* 10 * log10(harmonic_energy / noise_energy): log10(0) is -inf
harmonic_noise_features(l) ==
    [k \in Range(HarmonicKeys) |-> IF l.hE = 0 THEN NInf ELSE l.stat[k]]

(***************************************************************************)
(* extract_features                                                        *)
(***************************************************************************)
\* the half second taken with an integer division
TooShortFloor(n, sr) == n < sr \div 2

\* len(y) < sr * 0.5, on integers
TooShort(n, sr) == 2 * n < sr

\* a cleanup that tests np.isnan alone
CleanupNanOnly(f) == [k \in DOMAIN f |-> IF isnan(f[k]) THEN Fin(0) ELSE f[k]]

\* the final cleanup loop: NaN and +-Inf become 0.0
Cleanup(f) == [k \in DOMAIN f |-> IF isnan(f[k]) \/ isinf(f[k]) THEN Fin(0) ELSE f[k]]

\* the dict the four update calls build
Assemble(l) ==
    Update(Update(Update(Update(EmptyDict, pitch_features(l)), spectral_features(l)),
                  temporal_features(l)), harmonic_noise_features(l))

Analyzers == {"pitch_features", "spectral_features", "temporal_features",
              "harmonic_noise_features"}

extract_features(w, sample_rate, l) ==
    LET la == load_audio(w, sample_rate) IN
    IF la.err # "none"
    THEN [err |-> la.err, ret |-> NoValue, called |-> {}]
    ELSE IF TooShort(la.y.n, la.sr)
    THEN [err |-> "none", ret |-> default_features, called |-> {}]
    ELSE [err |-> "none", ret |-> Cleanup(Assemble(l)), called |-> Analyzers]

(***************************************************************************)
(* The explanation engine                                                  *)
(***************************************************************************)
MsgPitch == "Unnaturally stable pitch patterns detected"
MsgSpectral == "Over-smooth spectral transitions"
MsgEnergy == "Reduced temporal energy variation"
MsgHarmonic == "Excessively clean harmonic structure"
MsgFallback == "Speech characteristics resemble natural human voice patterns"

\* the thresholds of the four rules, in thousandths: 10, 0.05, 0.02, 18
PitchStdThreshold == 10000
FluxStdThreshold == 50
EnergyStdThreshold == 20
HnrThreshold == 18000

\* features.get(k, 0)
Get(f, k) == IF k \in DOMAIN f THEN f[k] ELSE Fin(0)

RulePitch(f) == FLess(Get(f, "pitch_std"), Fin(PitchStdThreshold))
RuleSpectral(f) == FLess(Get(f, "spectral_flux_std"), Fin(FluxStdThreshold))
RuleEnergy(f) == FLess(Get(f, "energy_std"), Fin(EnergyStdThreshold))
\* hnr >= 18 in place of hnr > 18
RuleHarmonicInclusive(f) == ~FLess(Get(f, "hnr"), Fin(HnrThreshold)) /\ ~isnan(Get(f, "hnr"))
RuleHarmonic(f) == FGreater(Get(f, "hnr"), Fin(HnrThreshold))

\* the energy rule tested before the spectral one
generate_explanation_swapped(f) ==
    LET e1 == IF RulePitch(f) THEN Append(<<>>, MsgPitch) ELSE <<>>
        e2 == IF RuleEnergy(f) THEN Append(e1, MsgEnergy) ELSE e1
        e3 == IF RuleSpectral(f) THEN Append(e2, MsgSpectral) ELSE e2
        e4 == IF RuleHarmonic(f) THEN Append(e3, MsgHarmonic) ELSE e3
    IN  IF e4 = <<>> THEN Append(e4, MsgFallback) ELSE e4

generate_explanation(f) ==
    LET e1 == IF RulePitch(f) THEN Append(<<>>, MsgPitch) ELSE <<>>
        e2 == IF RuleSpectral(f) THEN Append(e1, MsgSpectral) ELSE e1
        e3 == IF RuleEnergy(f) THEN Append(e2, MsgEnergy) ELSE e2
        e4 == IF RuleHarmonic(f) THEN Append(e3, MsgHarmonic) ELSE e3
    IN  IF e4 = <<>> THEN Append(e4, MsgFallback) ELSE e4

(***************************************************************************)
(* The language heuristic                                                  *)
(***************************************************************************)
\* a <= b on floats
FLessEq(a, b) == ~isnan(a) /\ ~isnan(b) /\ ~FLess(b, a)

\* the thresholds of the four tests, in thousandths: 190, 0.05, 150, 190, 2500,
\* 12, 0.03, 2200, 160
TamilPitchMin == 190000
TamilEnergyMin == 50
HindiPitchLow == 150000
HindiPitchHigh == 190000
HindiCentroidMin == 2500000
EnglishPitchStdMax == 12000
EnglishEnergyMax == 30
MalayalamCentroidMax == 2200000
MalayalamPitchMax == 160000

\* pitch_mean > 190 and energy_std > 0.05
TestTamil(f) ==
    /\ FGreater(Get(f, "pitch_mean"), Fin(TamilPitchMin))
    /\ FGreater(Get(f, "energy_std"), Fin(TamilEnergyMin))

\* 150 < pitch_mean <= 190 and spectral_centroid > 2500
TestHindi(f) ==
    /\ FLess(Fin(HindiPitchLow), Get(f, "pitch_mean"))
    /\ FLessEq(Get(f, "pitch_mean"), Fin(HindiPitchHigh))
    /\ FGreater(Get(f, "centroid_mean"), Fin(HindiCentroidMin))

\* pitch_std < 12 and energy_std < 0.03
TestEnglish(f) ==
    /\ FLess(Get(f, "pitch_std"), Fin(EnglishPitchStdMax))
    /\ FLess(Get(f, "energy_std"), Fin(EnglishEnergyMax))

\* spectral_centroid < 2200 and pitch_mean < 160
TestMalayalam(f) ==
    /\ FLess(Get(f, "centroid_mean"), Fin(MalayalamCentroidMax))
    /\ FLess(Get(f, "pitch_mean"), Fin(MalayalamPitchMax))

\* the English test taken before the Hindi one
detect_language_english_first(f) ==
    IF TestTamil(f) THEN "Tamil"
    ELSE IF TestEnglish(f) THEN "English"
    ELSE IF TestHindi(f) THEN "Hindi"
    ELSE IF TestMalayalam(f) THEN "Malayalam"
    ELSE "Telugu"

detect_language(f) ==
    IF TestTamil(f) THEN "Tamil"
    ELSE IF TestHindi(f) THEN "Hindi"
    ELSE IF TestEnglish(f) THEN "English"
    ELSE IF TestMalayalam(f) THEN "Malayalam"
    ELSE "Telugu"

(***************************************************************************)
(* sorted() on key strings: Python compares strings code point by code     *)
(* point, a proper prefix first                                            *)
(***************************************************************************)
KeyChars(k) ==
    CASE k = "pitch_mean" -> <<112, 105, 116, 99, 104, 95, 109, 101, 97, 110>>
      [] k = "pitch_std" -> <<112, 105, 116, 99, 104, 95, 115, 116, 100>>
      [] k = "pitch_delta_std" -> <<112, 105, 116, 99, 104, 95, 100, 101, 108, 116, 97, 95, 115, 116, 100>>
      [] k = "centroid_mean" -> <<99, 101, 110, 116, 114, 111, 105, 100, 95, 109, 101, 97, 110>>
      [] k = "centroid_std" -> <<99, 101, 110, 116, 114, 111, 105, 100, 95, 115, 116, 100>>
      [] k = "rolloff_std" -> <<114, 111, 108, 108, 111, 102, 102, 95, 115, 116, 100>>
      [] k = "bandwidth_std" -> <<98, 97, 110, 100, 119, 105, 100, 116, 104, 95, 115, 116, 100>>
      [] k = "spectral_flux_std" -> <<115, 112, 101, 99, 116, 114, 97, 108, 95, 102, 108, 117, 120, 95, 115, 116, 100>>
      [] k = "energy_mean" -> <<101, 110, 101, 114, 103, 121, 95, 109, 101, 97, 110>>
      [] k = "energy_std" -> <<101, 110, 101, 114, 103, 121, 95, 115, 116, 100>>
      [] k = "energy_delta_std" -> <<101, 110, 101, 114, 103, 121, 95, 100, 101, 108, 116, 97, 95, 115, 116, 100>>
      [] k = "hnr" -> <<104, 110, 114>>

RECURSIVE LexLess(_, _)
LexLess(a, b) ==
    IF b = <<>> THEN FALSE
    ELSE IF a = <<>> THEN TRUE
    ELSE IF a[1] # b[1] THEN a[1] < b[1]
    ELSE LexLess(Tail(a), Tail(b))

RECURSIVE sorted(_)
sorted(S) ==
    IF S = {} THEN <<>>
    ELSE LET m == CHOOSE x \in S : \A y \in S \ {x} : LexLess(KeyChars(x), KeyChars(y))
         IN  <<m>> \o sorted(S \ {m})

(***************************************************************************)
(* The random forest.  A fitted forest is its sorted class labels, its     *)
(* number of columns and its trees; a tree is a stump [col, thr, lo, hi]:  *)
(* a row with X[col] <= thr falls in the leaf whose share of the last      *)
(* class is lo / ProbDen, any other row in the leaf with hi / ProbDen.     *)
(***************************************************************************)
\* n_estimators, kept small
NTrees == 2
\* the denominator of a leaf's class share
ProbDen == 10000

UnfittedForest == [kind |-> "forest", fitted |-> FALSE, classes |-> <<>>, ncols |-> 0,
                   trees |-> <<>>]

SplitThreshold == Fin(200000)
LeafPairs == <<  <<0, ProbDen>>, <<ProbDen, 0>>, <<(ProbDen \div 2) - 4, (ProbDen \div 2) + 4>>  >>
SplitCols(ncols) == <<1, ncols>>

\* the stumps fit may grow on ncols columns
Stumps(ncols) ==
    [i \in 1..(Len(SplitCols(ncols)) * Len(LeafPairs)) |->
        LET c == ((i - 1) \div Len(LeafPairs)) + 1
            p == ((i - 1) % Len(LeafPairs)) + 1
        IN  [col |-> SplitCols(ncols)[c], thr |-> SplitThreshold,
             lo |-> LeafPairs[p][1], hi |-> LeafPairs[p][2]]]

\* the forests model.fit may return for data of ncols columns: which trees it
\* grows is scikit-learn's business; the order of the trees is immaterial, so
\* they are listed in the order of Stumps
Forests(ncols) ==
    {[t \in 1..NTrees |-> Stumps(ncols)[ix[t]]] :
        ix \in {jx \in [1..NTrees -> 1..Len(Stumps(ncols))] :
                    \A t \in 1..(NTrees - 1) : jx[t] <= jx[t + 1]}}

SetToSortedSeq(S) ==
    IF S = {0, 1} THEN <<0, 1>> ELSE IF S = {0} THEN <<0>> ELSE IF S = {1} THEN <<1>> ELSE <<>>

\* model.fit(X, y) returning the forest with trees tr
fit(ncols, labels, tr) ==
    [kind |-> "forest", fitted |-> TRUE, classes |-> SetToSortedSeq(Range(labels)),
     ncols |-> ncols, trees |-> tr]

RECURSIVE SumLeaves(_, _, _)
SumLeaves(trees, X, i) ==
    IF i > Len(trees) THEN 0
    ELSE (IF FLess(trees[i].thr, X[trees[i].col]) THEN trees[i].hi ELSE trees[i].lo)
         + SumLeaves(trees, X, i + 1)

\* model.predict_proba(X)[0]: one probability per class, the mean over the trees
predict_proba(m, X) ==
    IF Len(m.classes) = 1
    THEN << [num |-> 1, den |-> 1] >>
    ELSE LET s == SumLeaves(m.trees, X, 1)
             d == Len(m.trees) * ProbDen
         IN  << [num |-> d - s, den |-> d], [num |-> s, den |-> d] >>

(***************************************************************************)
(* VoiceClassifier.  impl "A" is voice_authenticity/models, impl "B" is    *)
(* 'voice authenticity/models'.  feature_order is [some, keys]: None is    *)
(* [some |-> FALSE].                                                       *)
(***************************************************************************)
NoOrder == [some |-> FALSE, keys |-> <<>>]
Order(ks) == [some |-> TRUE, keys |-> ks]

\* VoiceClassifier()
NewClassifier(impl) == [impl |-> impl, model |-> UnfittedForest, feature_order |-> NoOrder]

\* the forests fit may return on these rows and labels
FitChoices(ncols, labels) ==
    IF Cardinality(Range(labels)) < 2
    THEN {[t \in 1..NTrees |-> [col |-> 1, thr |-> SplitThreshold, lo |-> ProbDen, hi |-> ProbDen]]}
    ELSE Forests(ncols)

\* train(feature_dicts, labels): the outcomes the call may have, each the
\* exception raised ("none" if it returned) and the object after the call
train(c, feature_dicts, labels) ==
    IF Len(feature_dicts) = 0
    THEN {[err |-> "IndexError", obj |-> c]}
    ELSE LET order == sorted(DOMAIN feature_dicts[1])
             c1 == [c EXCEPT !.feature_order = Order(order)]
         IN  IF \E i \in DOMAIN feature_dicts : ~(Range(order) \subseteq DOMAIN feature_dicts[i])
             THEN {[err |-> "KeyError", obj |-> c1]}
             ELSE {[err |-> "none",
                    obj |-> [c1 EXCEPT !.model = fit(Len(order), labels, tr)]] :
                       tr \in FitChoices(Len(order), labels)}

\* joblib.dump(value, path) and joblib.load(path): the file holds the pickled
\* items of the dict, in insertion order
Pickle(items) == [kind |-> "dict", items |-> items]

DictGet(d, name) ==
    LET hits == {i \in DOMAIN d.items : d.items[i][1] = name}
    IN  IF hits = {} THEN [err |-> "KeyError", val |-> NoValue]
        ELSE [err |-> "none", val |-> d.items[CHOOSE i \in hits : TRUE][2]]

\* save(model_path) of impl A: the artifact written
save(c) == Pickle(<< <<"model", c.model>>, <<"feature_order", c.feature_order>> >>)

\* a load that restores the model alone, as the constructor of impl B does
load_model_only(d) ==
    LET m == DictGet(d, "model")
    IN  IF m.err # "none"
        THEN [err |-> "KeyError", obj |-> NoValue]
        ELSE [err |-> "none",
              obj |-> [impl |-> "A", model |-> m.val, feature_order |-> NoOrder]]

\* the static load(model_path) of impl A on artifact d
load(d) ==
    LET m == DictGet(d, "model")
        o == DictGet(d, "feature_order")
    IN  IF m.err # "none" \/ o.err # "none"
        THEN [err |-> "KeyError", obj |-> NoValue]
        ELSE [err |-> "none",
              obj |-> [impl |-> "A", model |-> m.val, feature_order |-> o.val]]

\* VoiceClassifier(model_path) of impl B on artifact d: the whole unpickled
\* object becomes self.model, and feature_order is None
NewFromPath(d) == [impl |-> "B", model |-> d, feature_order |-> NoOrder]

\* the threshold taken strictly
MoreThanHalf(p) == 2 * p.num > p.den

\* the decision threshold 0.5, as num / den >= 1 / 2
AtLeastHalf(p) == 2 * p.num >= p.den

Classify(p) == IF AtLeastHalf(p) THEN "AI_GENERATED" ELSE "HUMAN"

\* a predict that reads the vector with feature_dict.get(k, 0)
predict_defaulting(c, fd) ==
    IF c.impl = "B" THEN [err |-> "AttributeError", ret |-> NoValue]
    ELSE IF ~c.feature_order.some THEN [err |-> "TypeError", ret |-> NoValue]
    ELSE LET X == [i \in DOMAIN c.feature_order.keys |-> Get(fd, c.feature_order.keys[i])] IN
         IF ~c.model.fitted THEN [err |-> "NotFittedError", ret |-> NoValue]
         ELSE IF Len(X) # c.model.ncols THEN [err |-> "ValueError", ret |-> NoValue]
         ELSE LET probs == predict_proba(c.model, X) IN
              IF Len(probs) < 2 THEN [err |-> "IndexError", ret |-> NoValue]
              ELSE [err |-> "none",
                    ret |-> [classification |-> Classify(probs[2]),
                             confidence |-> probs[2]]]

\* predict(feature_dict)
predict(c, fd) ==
    IF c.impl = "B" THEN [err |-> "AttributeError", ret |-> NoValue]
    ELSE IF ~c.feature_order.some THEN [err |-> "TypeError", ret |-> NoValue]
    ELSE IF ~(Range(c.feature_order.keys) \subseteq DOMAIN fd)
    THEN [err |-> "KeyError", ret |-> NoValue]
    ELSE LET X == [i \in DOMAIN c.feature_order.keys |-> fd[c.feature_order.keys[i]]] IN
         IF ~c.model.fitted THEN [err |-> "NotFittedError", ret |-> NoValue]
         ELSE IF Len(X) # c.model.ncols THEN [err |-> "ValueError", ret |-> NoValue]
         ELSE LET probs == predict_proba(c.model, X) IN
              IF Len(probs) < 2 THEN [err |-> "IndexError", ret |-> NoValue]
              ELSE [err |-> "none",
                    ret |-> [classification |-> Classify(probs[2]),
                             confidence |-> probs[2]]]

\* predict taken in its two reads of the shared object: the encoding of the
\* vector with self.feature_order, then the scoring with self.model
Encode(c, fd) ==
    IF c.impl = "B" THEN [err |-> "AttributeError", X |-> <<>>]
    ELSE IF ~c.feature_order.some THEN [err |-> "TypeError", X |-> <<>>]
    ELSE IF ~(Range(c.feature_order.keys) \subseteq DOMAIN fd)
    THEN [err |-> "KeyError", X |-> <<>>]
    ELSE [err |-> "none",
          X |-> [i \in DOMAIN c.feature_order.keys |-> fd[c.feature_order.keys[i]]]]

Score(c, X) ==
    IF ~c.model.fitted THEN [err |-> "NotFittedError", ret |-> NoValue]
    ELSE IF Len(X) # c.model.ncols THEN [err |-> "ValueError", ret |-> NoValue]
    ELSE LET probs == predict_proba(c.model, X) IN
         IF Len(probs) < 2 THEN [err |-> "IndexError", ret |-> NoValue]
         ELSE [err |-> "none",
               ret |-> [classification |-> Classify(probs[2]),
                        confidence |-> probs[2]]]

(***************************************************************************)
(* Inputs                                                                   *)
(***************************************************************************)
\* how far around half a second the clip lengths go, in samples
MaxDelta == 1
\* how many of the twelve reductions may come out NaN or infinite in one call
MaxNonFinite == 1

SampleRates == {16000, 11025}
Peaks == {0, 250, 1000}

Lengths(sr) == {0, 1} \cup {(sr \div 2) + d : d \in (0 - MaxDelta)..MaxDelta}

Waves == {[n |-> n, peak |-> p, sr |-> sr] :
              n \in UNION {Lengths(r) : r \in SampleRates}, p \in Peaks, sr \in SampleRates}

\* reductions of a lively human clip and of a flat synthetic one
HumanStats ==
    [k \in Schema |->
        CASE k = "pitch_mean" -> Fin(180000)
          [] k = "pitch_std" -> Fin(40000)
          [] k = "pitch_delta_std" -> Fin(5000)
          [] k = "centroid_mean" -> Fin(2400000)
          [] k = "centroid_std" -> Fin(500000)
          [] k = "rolloff_std" -> Fin(800000)
          [] k = "bandwidth_std" -> Fin(300000)
          [] k = "spectral_flux_std" -> Fin(300)
          [] k = "energy_mean" -> Fin(100)
          [] k = "energy_std" -> Fin(100)
          [] k = "energy_delta_std" -> Fin(30)
          [] OTHER -> Fin(5000)]

ToneStats ==
    [k \in Schema |->
        CASE k = "pitch_mean" -> Fin(120000)
          [] k = "pitch_std" -> Fin(2000)
          [] k = "pitch_delta_std" -> Fin(100)
          [] k = "centroid_mean" -> Fin(2000000)
          [] k = "centroid_std" -> Fin(20000)
          [] k = "rolloff_std" -> Fin(30000)
          [] k = "bandwidth_std" -> Fin(10000)
          [] k = "spectral_flux_std" -> Fin(10)
          [] k = "energy_mean" -> Fin(700)
          [] k = "energy_std" -> Fin(5)
          [] k = "energy_delta_std" -> Fin(1)
          [] OTHER -> Fin(25000)]

Profiles == {HumanStats, ToneStats}
F0Frames == {0, MinPitchFrames - 1, MinPitchFrames}

\* what librosa may hand back: a profile in which at most m reductions are non-finite
LibInputs(m) ==
    UNION {UNION {{[f0n |-> n, hE |-> h, stat |-> Update(p, g)] :
                      n \in F0Frames, h \in {0, 1}, p \in Profiles} :
                  g \in [D -> NonFinite]} :
           D \in {S \in SUBSET Schema : Cardinality(S) <= m}}

NoLib == [f0n |-> 0, hE |-> 0, stat |-> EmptyDict]
NoWave == [n |-> 0, peak |-> 0, sr |-> 0]

\* mappings handed to generate_explanation directly: any subset of the four rule
\* keys, each value on either side of its threshold, at it, or NaN
RuleKeys == {"pitch_std", "spectral_flux_std", "energy_std", "hnr"}
RuleValues(k) ==
    CASE k = "pitch_std" -> {Fin(0), Fin(PitchStdThreshold - 1), Fin(PitchStdThreshold), Fin(40000), NaN}
      [] k = "spectral_flux_std" -> {Fin(0), Fin(FluxStdThreshold - 1), Fin(FluxStdThreshold), Fin(300), NaN}
      [] k = "energy_std" -> {Fin(0), Fin(EnergyStdThreshold - 1), Fin(EnergyStdThreshold), Fin(100), NaN}
      [] OTHER -> {Fin(0), Fin(5000), Fin(HnrThreshold), Fin(HnrThreshold + 1), NaN}

RuleInputs ==
    UNION {{g \in [D -> UNION {RuleValues(k) : k \in RuleKeys}] :
                \A k \in D : g[k] \in RuleValues(k)} : D \in SUBSET RuleKeys}

(***************************************************************************)
(* More inputs                                                              *)
(***************************************************************************)
\* how many files of a class a training set holds at most
MaxFiles == 4
\* train() of train.py refuses fewer samples than this
MinSamples == 4

\* the dataset load_dataset builds from h human and a AI files
Dataset(h, a) ==
    [dicts |-> [i \in 1..(h + a) |-> IF i <= h THEN HumanStats ELSE ToneStats],
     labels |-> [i \in 1..(h + a) |-> IF i <= h THEN 0 ELSE 1]]

\* the example of the rule table on which no rule fires
QuietExample ==
    [k \in RuleKeys |->
        CASE k = "pitch_std" -> Fin(40000)
          [] k = "spectral_flux_std" -> Fin(300)
          [] k = "energy_std" -> Fin(100)
          [] OTHER -> Fin(5000)]

Restrict(f, S) == [k \in S |-> f[k]]

\* training sets handed to VoiceClassifier.train directly
TrainSets ==
    {Dataset(h, a) : h \in 0..1, a \in 0..1}
    \cup {[dicts |-> <<QuietExample, Restrict(ToneStats, RuleKeys)>>, labels |-> <<0, 1>>],
          [dicts |-> <<HumanStats, Restrict(ToneStats, RuleKeys)>>, labels |-> <<0, 1>>]}

\* feature vectors handed to predict directly
PredictInputs ==
    Profiles \cup {default_features, QuietExample,
                   Restrict(HumanStats, Schema \ {"hnr"}),
                   Restrict(ToneStats, Schema \ {"bandwidth_std"})}

(***************************************************************************)
(* Calls                                                                    *)
(***************************************************************************)
\* extract_features(audio_array=w, sample_rate=w.sr) on a waveform of W, librosa
\* answering with an element of L
Extract(W, L) ==
    /\ pc = "idle"
    /\ \E w \in W, l \in L :
          /\ w.peak = 0 => l.hE = 0
          /\ LET r == extract_features(w, w.sr, l) IN
             /\ wave' = w
             /\ lib' = IF r.called = {} THEN NoLib ELSE l
             /\ called' = r.called
             /\ features' = r.ret
             /\ err' = r.err
             /\ pc' = IF r.err = "none" THEN "extracted" ELSE "failed"
    /\ UNCHANGED <<prediction, explanation, response, clsVars, shortPred, extVars>>

\* generate_explanation(features)
Explain ==
    /\ explanation' = generate_explanation(features)
    /\ pc' = "explained"
    /\ UNCHANGED <<wave, lib, called, features, prediction, response, err, clsVars, shortPred, extVars>>

\* how many predictions for too-short clips are counted
MaxRepeat == 2

\* classifier.predict(fd) on the loaded classifier; shortPred keeps the first
\* answer given for a too-short clip
Predict(fd) ==
    LET r == predict(srv, fd) IN
    /\ prediction' = r.ret
    /\ err' = r.err
    /\ pc' = IF r.err = "none" THEN "predicted" ELSE "failed"
    /\ shortPred' = IF r.err = "none" /\ pc = "extracted" /\ called = {}
                    THEN [n |-> IF shortPred.n < MaxRepeat THEN shortPred.n + 1 ELSE shortPred.n,
                          pred |-> IF shortPred.n = 0 THEN r.ret ELSE shortPred.pred]
                    ELSE shortPred

\* the caller drops the results of the call
Return ==
    /\ pc' = "idle"
    /\ wave' = NoWave
    /\ lib' = NoLib
    /\ called' = {}
    /\ features' = NoValue
    /\ prediction' = NoValue
    /\ explanation' = <<>>
    /\ response' = NoValue
    /\ err' = "none"
    /\ language' = ""
    /\ UNCHANGED <<clsVars, shortPred, threads>>

NoShortPred == [n |-> 0, pred |-> NoValue]

\* how many requests the serving process handles at once
NThreads == 2
Threads == 1..NThreads

\* a handler thread between two requests
IdleThread == [pc |-> "idle", given |-> NoValue, features |-> NoValue, X |-> <<>>,
               prediction |-> NoValue, explanation |-> <<>>, language |-> "",
               err |-> "none"]

Init ==
    /\ pc = "idle"
    /\ wave = NoWave
    /\ lib = NoLib
    /\ called = {}
    /\ features = NoValue
    /\ prediction = NoValue
    /\ explanation = <<>>
    /\ response = NoValue
    /\ err = "none"
    /\ clf = NoValue
    /\ disk = NoValue
    /\ srv = NoValue
    /\ savedFrom = NoValue
    /\ shortPred = NoShortPred
    /\ language = ""
    /\ threads = [t \in Threads |-> IdleThread]

(***************************************************************************)
(* extract_features called on every waveform                                *)
(***************************************************************************)
CallExtract == Extract(Waves, LibInputs(MaxNonFinite))

ReturnExtract == pc \in {"extracted", "failed"} /\ Return

NextFeatures == CallExtract \/ ReturnExtract

SpecFeatures == Init /\ [][NextFeatures]_vars

(***************************************************************************)
(* generate_explanation called on every mapping                             *)
(***************************************************************************)
CallExplain ==
    /\ pc = "idle"
    /\ \E f \in RuleInputs \cup Profiles \cup {default_features} : features' = f
    /\ pc' = "extracted"
    /\ UNCHANGED <<wave, lib, called, prediction, explanation, response, err, clsVars, shortPred, extVars>>

RunExplain == pc = "extracted" /\ Explain

ReturnExplain == pc = "explained" /\ Return

NextExplain == CallExplain \/ RunExplain \/ ReturnExplain

SpecExplain == Init /\ [][NextExplain]_vars

(***************************************************************************)
(* The life of a classifier: construct, train, save in the offline         *)
(* process; load and predict in the serving one                            *)
(***************************************************************************)
\* VoiceClassifier() of either implementation, in a fresh offline process
Construct ==
    /\ pc = "idle" /\ srv = NoValue /\ clf = NoValue
    /\ \E impl \in {"A", "B"} : clf' = NewClassifier(impl)
    /\ err' = "none"
    /\ UNCHANGED <<pc, reqVars, disk, srv, savedFrom, shortPred, extVars>>

\* clf.train(feature_dicts, labels), once on an object, as train.py does
Train ==
    /\ pc = "idle" /\ srv = NoValue /\ clf # NoValue
    /\ ~clf.feature_order.some
    /\ \E ds \in TrainSets :
          \E r \in train(clf, ds.dicts, ds.labels) :
             /\ clf' = r.obj
             /\ err' = r.err
    /\ UNCHANGED <<pc, reqVars, disk, srv, savedFrom, shortPred, extVars>>

\* clf.save(MODEL_PATH): impl B calls joblib.dump without a filename
Save ==
    /\ pc = "idle" /\ srv = NoValue /\ clf # NoValue
    /\ IF clf.impl = "A"
       THEN /\ disk' = save(clf)
            /\ savedFrom' = clf
            /\ err' = "none"
       ELSE /\ err' = "TypeError"
            /\ UNCHANGED <<disk, savedFrom>>
    /\ UNCHANGED <<pc, reqVars, clf, srv, shortPred, extVars>>

\* VoiceClassifier.load(MODEL_PATH) of impl A, in a serving process started
\* once the offline one has ended
Load ==
    /\ pc = "idle" /\ srv = NoValue /\ clf = NoValue
    /\ IF disk = NoValue
       THEN /\ err' = "FileNotFoundError"
            /\ UNCHANGED srv
       ELSE LET r == load(disk) IN
            /\ err' = r.err
            /\ srv' = r.obj
    /\ shortPred' = NoShortPred
    /\ UNCHANGED <<pc, reqVars, clf, disk, savedFrom, extVars>>

\* VoiceClassifier(model_path=MODEL_PATH) of impl B
LoadFromPath ==
    /\ pc = "idle" /\ srv = NoValue /\ clf = NoValue
    /\ IF disk = NoValue
       THEN /\ err' = "FileNotFoundError"
            /\ UNCHANGED srv
       ELSE /\ err' = "none"
            /\ srv' = NewFromPath(disk)
    /\ shortPred' = NoShortPred
    /\ UNCHANGED <<pc, reqVars, clf, disk, savedFrom, extVars>>

\* the offline process ends
Exit ==
    /\ pc = "idle" /\ srv = NoValue /\ clf # NoValue
    /\ clf' = NoValue
    /\ err' = "none"
    /\ UNCHANGED <<pc, reqVars, disk, srv, savedFrom, shortPred, extVars>>

\* srv.predict(fd) on a vector handed in directly
CallPredict ==
    /\ pc = "idle" /\ srv # NoValue
    /\ \E fd \in PredictInputs :
          /\ features' = fd
          /\ Predict(fd)
    /\ UNCHANGED <<wave, lib, called, explanation, response, clsVars, extVars>>

ReturnPredict == pc \in {"predicted", "failed"} /\ Return

\* the serving process ends
Shutdown ==
    /\ pc = "idle" /\ srv # NoValue
    /\ srv' = NoValue
    /\ err' = "none"
    /\ shortPred' = NoShortPred
    /\ UNCHANGED <<pc, reqVars, clf, disk, savedFrom, extVars>>

NextModel ==
    \/ Construct \/ Train \/ Save \/ Exit
    \/ Load \/ LoadFromPath \/ CallPredict \/ ReturnPredict \/ Shutdown

SpecModel == Init /\ [][NextModel]_vars

(***************************************************************************)
(* train.py, then the serving process of voice_authenticity/api/app.py     *)
(***************************************************************************)
\* train() of train.py: load_dataset, the size check, train, save
TrainScript ==
    /\ pc = "idle" /\ srv = NoValue /\ clf = NoValue
    /\ \E h \in 0..MaxFiles, a \in 0..MaxFiles :
          LET ds == Dataset(h, a) IN
          IF Len(ds.dicts) < MinSamples
          THEN /\ err' = "RuntimeError"
               /\ UNCHANGED <<disk, savedFrom>>
          ELSE \E r \in train(NewClassifier("A"), ds.dicts, ds.labels) :
                  /\ err' = r.err
                  /\ IF r.err = "none"
                     THEN disk' = save(r.obj) /\ savedFrom' = r.obj
                     ELSE UNCHANGED <<disk, savedFrom>>
    /\ UNCHANGED <<pc, reqVars, clf, srv, shortPred, extVars>>

\* the clips /detect decodes: librosa.load(tmp_path, sr=16000)
DetectRate == 16000
DetectWaves == {w \in Waves : w.sr = DetectRate}

\* round(p, 3) in thousandths, ties to even
RoundMilli(p) ==
    LET q == (p.num * 1000) \div p.den
        r == (p.num * 1000) % p.den
    IN  IF 2 * r > p.den THEN q + 1
        ELSE IF 2 * r < p.den THEN q
        ELSE IF q % 2 = 0 THEN q ELSE q + 1

ReqExtract == srv # NoValue /\ Extract(DetectWaves, LibInputs(0))

ReqPredict ==
    /\ pc = "extracted"
    /\ Predict(features)
    /\ UNCHANGED <<wave, lib, called, features, explanation, response, clsVars, extVars>>

ReqExplain == pc = "predicted" /\ Explain

\* the jsonify of /detect
ReqRespond ==
    /\ pc = "explained"
    /\ response' = [classification |-> prediction.classification,
                    confidence |-> RoundMilli(prediction.confidence),
                    explanation |-> explanation]
    /\ pc' = "responded"
    /\ UNCHANGED <<wave, lib, called, features, prediction, explanation, err, clsVars, shortPred, extVars>>

ReqDone == pc \in {"responded", "failed"} /\ Return

Next ==
    \/ TrainScript \/ Load \/ Shutdown
    \/ ReqExtract \/ ReqPredict \/ ReqExplain \/ ReqRespond \/ ReqDone

Spec == Init /\ [][Next]_vars

(***************************************************************************)
(* detect_language called on every mapping                                  *)
(***************************************************************************)
\* mappings handed to detect_language: any subset of the four keys it reads,
\* each value around the thresholds it is compared with, or NaN
LangKeys == {"pitch_mean", "pitch_std", "energy_std", "centroid_mean"}
LangValues(k) ==
    CASE k = "pitch_mean" -> {Fin(HindiPitchLow), Fin(MalayalamPitchMax - 1), Fin(MalayalamPitchMax),
                              Fin(HindiPitchHigh), Fin(TamilPitchMin + 1), NaN}
      [] k = "pitch_std" -> {Fin(EnglishPitchStdMax - 1), Fin(EnglishPitchStdMax), NaN}
      [] k = "energy_std" -> {Fin(EnglishEnergyMax - 1), Fin(EnglishEnergyMax), Fin(TamilEnergyMin),
                              Fin(TamilEnergyMin + 1), NaN}
      [] OTHER -> {Fin(MalayalamCentroidMax - 1), Fin(MalayalamCentroidMax),
                   Fin(HindiCentroidMin), Fin(HindiCentroidMin + 1)}

LangInputs ==
    UNION {{g \in [D -> UNION {LangValues(k) : k \in LangKeys}] :
                \A k \in D : g[k] \in LangValues(k)} : D \in SUBSET LangKeys}

CallLanguage ==
    /\ pc = "idle"
    /\ \E f \in LangInputs \cup Profiles \cup {default_features} : features' = f
    /\ pc' = "extracted"
    /\ UNCHANGED <<wave, lib, called, prediction, explanation, response, err, clsVars, shortPred,
                   extVars>>

\* detect_language(features)
RunLanguage ==
    /\ pc = "extracted"
    /\ language' = detect_language(features)
    /\ pc' = "detected"
    /\ UNCHANGED <<wave, lib, called, features, prediction, explanation, response, err, clsVars,
                   shortPred, threads>>

ReturnLanguage == pc = "detected" /\ Return

NextLanguage == CallLanguage \/ RunLanguage \/ ReturnLanguage

SpecLanguage == Init /\ [][NextLanguage]_vars

(***************************************************************************)
(* The serving process handling several requests at once: every handler    *)
(* thread reads the one module-level classifier                            *)
(***************************************************************************)
\* the feature mappings of the requests
ServeInputs == {HumanStats, ToneStats}

\* an X kept on the shared classifier object: a call scores the vector thread 1
\* wrote while that thread is between its two reads
SharedX(ts, t) == IF ts[1].pc = "encoded" THEN ts[1].X ELSE ts[t].X

\* X is a local variable of the call
LocalX(ts, t) == ts[t].X

\* a request arrives with its own feature mapping
ThreadStart(t) ==
    /\ srv # NoValue
    /\ threads[t].pc = "idle"
    /\ \E fd \in ServeInputs :
          threads' = [threads EXCEPT ![t] = [IdleThread EXCEPT !.pc = "started", !.given = fd,
                                                               !.features = fd]]
    /\ UNCHANGED <<pc, err, reqVars, clsVars, shortPred, language>>

\* classifier.predict(features), first read: self.feature_order
ThreadEncode(t) ==
    /\ threads[t].pc = "started"
    /\ LET r == Encode(srv, threads[t].features) IN
       threads' = [threads EXCEPT ![t].X = r.X, ![t].err = r.err,
                                  ![t].pc = IF r.err = "none" THEN "encoded" ELSE "failed"]
    /\ UNCHANGED <<pc, err, reqVars, clsVars, shortPred, language>>

\* classifier.predict(features), second read: self.model
ThreadScore(t) ==
    /\ threads[t].pc = "encoded"
    /\ LET r == Score(srv, LocalX(threads, t)) IN
       threads' = [threads EXCEPT ![t].prediction = r.ret, ![t].err = r.err,
                                  ![t].pc = IF r.err = "none" THEN "predicted" ELSE "failed"]
    /\ UNCHANGED <<pc, err, reqVars, clsVars, shortPred, language>>

\* generate_explanation(features)
ThreadExplain(t) ==
    /\ threads[t].pc = "predicted"
    /\ threads' = [threads EXCEPT ![t].explanation = generate_explanation(threads[t].features),
                                  ![t].pc = "explained"]
    /\ UNCHANGED <<pc, err, reqVars, clsVars, shortPred, language>>

\* detect_language(features), as a caller holding the request's mapping makes
\* it (neither app.py calls it)
ThreadLanguage(t) ==
    /\ threads[t].pc = "explained"
    /\ threads' = [threads EXCEPT ![t].language = detect_language(threads[t].features),
                                  ![t].pc = "answered"]
    /\ UNCHANGED <<pc, err, reqVars, clsVars, shortPred, language>>

\* the response is sent and the handler's locals are dropped
ThreadDone(t) ==
    /\ threads[t].pc \in {"answered", "failed"}
    /\ threads' = [threads EXCEPT ![t] = IdleThread]
    /\ UNCHANGED <<pc, err, reqVars, clsVars, shortPred, language>>

Start == \E t \in Threads : ThreadStart(t)
EncodeStep == \E t \in Threads : ThreadEncode(t)
ScoreStep == \E t \in Threads : ThreadScore(t)
ExplainStep == \E t \in Threads : ThreadExplain(t)
LanguageStep == \E t \in Threads : ThreadLanguage(t)
Done == \E t \in Threads : ThreadDone(t)

NextServe ==
    \/ TrainScript \/ Load
    \/ Start \/ EncodeStep \/ ScoreStep \/ ExplainStep \/ LanguageStep \/ Done

SpecServe == Init /\ [][NextServe]_vars

(***************************************************************************)
(* Properties                                                               *)
(***************************************************************************)
SchemaKeys12 == {"pitch_mean", "pitch_std", "pitch_delta_std", "centroid_mean",
                 "centroid_std", "rolloff_std", "bandwidth_std", "spectral_flux_std",
                 "energy_mean", "energy_std", "energy_delta_std", "hnr"}

\* the clip of the call is non-empty and shorter than half a second
ShortClip == wave.n > 0 /\ 10 * wave.n < 5 * wave.sr

\* C1: on a non-empty waveform extract_features returns; it skips all four
\* analyzers exactly when the number of samples is below 0.5 * sr, and then
\* returns the twelve schema keys, each 0.0; otherwise it runs all four.
C1_ShortCircuit ==
    (pc \in {"extracted", "failed"} /\ wave.n > 0) =>
        /\ pc = "extracted"
        /\ (called = {}) <=> (10 * wave.n < 5 * wave.sr)
        /\ called = {} =>
              /\ DOMAIN features = SchemaKeys12
              /\ Cardinality(DOMAIN features) = 12
              /\ \A k \in SchemaKeys12 : features[k] = Fin(0)
        /\ called # {} =>
              called = {"pitch_features", "spectral_features", "temporal_features",
                        "harmonic_noise_features"}

\* C1 witness: 5512 samples at 11025 Hz, just under half a second, short-circuited
C1_Witness ==
    /\ pc = "extracted"
    /\ wave.n = 5512 /\ wave.sr = 11025
    /\ called = {}
    /\ features = [k \in SchemaKeys12 |-> Fin(0)]

\* C2 as stated: a too-short clip gets the fallback explanation.
C2_FallbackOnShortClip ==
    (pc \in {"explained", "responded"} /\ ShortClip) => explanation = <<MsgFallback>>

\* C2 amended: a too-short clip gets the pitch, spectral and energy messages,
\* in that order and no other, and every prediction for a too-short clip since
\* the load equals the first one, label and confidence.
C2_ShortClipOutcome ==
    /\ (pc \in {"explained", "responded"} /\ ShortClip) =>
          explanation = <<MsgPitch, MsgSpectral, MsgEnergy>>
    /\ (pc \in {"predicted", "explained", "responded"} /\ ShortClip) =>
          /\ shortPred.n >= 1
          /\ prediction = shortPred.pred

\* C2 witness: the second too-short clip since the load has been answered
C2_Witness ==
    /\ pc = "responded"
    /\ ShortClip
    /\ shortPred.n = 2
    /\ prediction = shortPred.pred
    /\ response.explanation = <<MsgPitch, MsgSpectral, MsgEnergy>>

\* C3: every mapping extract_features returns has exactly the twelve schema
\* keys and finite values only; on the normal path a finite analyzer value is
\* passed on and a NaN, +Inf or -Inf one is replaced by 0.0.
C3_FiniteComplete ==
    pc = "extracted" =>
        /\ DOMAIN features = SchemaKeys12
        /\ \A k \in SchemaKeys12 : features[k].k = "fin"
        /\ called # {} =>
              \A k \in SchemaKeys12 :
                 LET raw == Assemble(lib)[k] IN
                 features[k] = IF raw.k = "fin" THEN raw ELSE Fin(0)

\* C3 witness: an analyzer gave +Inf for a key and the returned value is 0.0
C3_Witness ==
    /\ pc = "extracted"
    /\ called # {}
    /\ \E k \in SchemaKeys12 : Assemble(lib)[k] = PInf /\ features[k] = Fin(0)

\* C4: whenever predict returns, the confidence is the forest's probability of
\* class 1 on the encoded vector, it lies in [0, 1], and the label is
\* AI_GENERATED iff the confidence is at least 0.5, HUMAN otherwise.
C4_PredictContract ==
    pc = "predicted" =>
        LET c == prediction.confidence
            ks == srv.feature_order.keys
            X == [i \in DOMAIN ks |-> features[ks[i]]]
            probs == predict_proba(srv.model, X)
        IN  /\ c.den > 0 /\ 0 <= c.num /\ c.num <= c.den
            /\ \E i \in DOMAIN srv.model.classes :
                  srv.model.classes[i] = 1 /\ c = probs[i]
            /\ prediction.classification \in {"AI_GENERATED", "HUMAN"}
            /\ (prediction.classification = "AI_GENERATED") <=> (2 * c.num >= c.den)

\* C4 witness: a prediction of confidence exactly 0.5, labelled AI_GENERATED
C4_Witness ==
    /\ pc = "predicted"
    /\ 2 * prediction.confidence.num = prediction.confidence.den
    /\ prediction.classification = "AI_GENERATED"

\* C5: a classifier loaded from the artifact a trained classifier saved holds
\* the same forest and the same feature_order, key by key, and predict answers
\* every vector as the saved classifier does.
C5_RoundTrip ==
    (srv # NoValue /\ srv.impl = "A" /\ savedFrom.model.fitted) =>
        /\ srv.model = savedFrom.model
        /\ srv.feature_order.some
        /\ Len(srv.feature_order.keys) = Len(savedFrom.feature_order.keys)
        /\ \A i \in DOMAIN savedFrom.feature_order.keys :
              srv.feature_order.keys[i] = savedFrom.feature_order.keys[i]
        /\ \A v \in PredictInputs : predict(srv, v) = predict(savedFrom, v)

\* C5 witness: a loaded trained two-class classifier has answered a vector
C5_Witness ==
    /\ srv # NoValue /\ srv.impl = "A" /\ savedFrom.model.fitted
    /\ Len(srv.feature_order.keys) = 12
    /\ srv.feature_order.keys[1] = "bandwidth_std"
    /\ pc = "predicted"

C6Messages == <<MsgPitch, MsgSpectral, MsgEnergy, MsgHarmonic, MsgFallback>>

\* the value a rule reads: the mapping's, or 0 for a key it lacks
C6Value(k) == IF k \in DOMAIN features THEN features[k] ELSE Fin(0)

C6Condition(i) ==
    CASE i = 1 -> FLess(C6Value("pitch_std"), Fin(10000))
      [] i = 2 -> FLess(C6Value("spectral_flux_std"), Fin(50))
      [] i = 3 -> FLess(C6Value("energy_std"), Fin(20))
      [] i = 4 -> FLess(Fin(18000), C6Value("hnr"))

C6Index(m) == CHOOSE i \in 1..5 : C6Messages[i] = m

\* C6: the list holds a rule's message iff the rule's condition holds, and its
\* messages follow the order of the table.
C6_RuleOrder ==
    pc = "explained" =>
        /\ \A i \in 1..4 : (C6Messages[i] \in Range(explanation)) <=> C6Condition(i)
        /\ \A a, b \in DOMAIN explanation :
              a < b => C6Index(explanation[a]) < C6Index(explanation[b])

\* C6 witness: all four rules fired
C6_Witness ==
    /\ pc = "explained"
    /\ explanation = <<MsgPitch, MsgSpectral, MsgEnergy, MsgHarmonic>>

\* C7: the list is never empty; it is the one-element fallback list iff no rule
\* condition holds; the fallback never accompanies a rule message; the example
\* vector gets the fallback alone.
C7_Fallback ==
    pc = "explained" =>
        /\ Len(explanation) >= 1
        /\ (explanation = <<MsgFallback>>) <=> (\A i \in 1..4 : ~C6Condition(i))
        /\ MsgFallback \in Range(explanation) => Len(explanation) = 1
        /\ (DOMAIN features = RuleKeys /\ features = QuietExample) =>
              explanation = <<MsgFallback>>

\* C7 witness: the example vector explained by the fallback alone
C7_Witness ==
    /\ pc = "explained"
    /\ DOMAIN features = RuleKeys
    /\ features["pitch_std"] = Fin(40000)
    /\ features["spectral_flux_std"] = Fin(300)
    /\ features["energy_std"] = Fin(100)
    /\ features["hnr"] = Fin(5000)
    /\ explanation = <<MsgFallback>>

\* C8: a classifier obtained by loading an artifact always has a feature_order.
C8_LoadRejectsMissingOrder == srv # NoValue => srv.feature_order.some

\* C9: predict on a vector lacking a key of the stored feature_order raises
\* KeyError and returns nothing, and the classifier still holds the forest and
\* the feature_order it was saved with.
C9_MissingKeyIsLoud ==
    (/\ pc \in {"predicted", "failed"}
     /\ srv # NoValue /\ srv.impl = "A" /\ srv.feature_order.some
     /\ \E k \in Range(srv.feature_order.keys) : k \notin DOMAIN features) =>
        /\ pc = "failed"
        /\ err = "KeyError"
        /\ prediction = NoValue
        /\ srv.model = savedFrom.model
        /\ srv.feature_order = savedFrom.feature_order

\* C9 witness: a fitted classifier refused a vector without hnr
C9_Witness ==
    /\ pc = "failed" /\ err = "KeyError"
    /\ srv # NoValue /\ srv.impl = "A" /\ srv.model.fitted
    /\ DOMAIN features = SchemaKeys12 \ {"hnr"}

\* C10: on a too-short clip (one of zero samples included) or a silent one
\* extract_features returns a mapping of the twelve keys.
C10_DegenerateNeverRaises ==
    (pc \in {"extracted", "failed"} /\ (10 * wave.n < 5 * wave.sr \/ wave.peak = 0)) =>
        /\ pc = "extracted"
        /\ err = "none"
        /\ DOMAIN features = SchemaKeys12

\* the handler threads that hold an answer of predict
C11Answered == {t \in Threads : threads[t].pc \in {"predicted", "explained", "answered"}}

\* C11: while requests are handled at once, the loaded classifier keeps the
\* forest and the feature_order it was saved with, no call changes the mapping
\* a request handed in, every predict answers as predict run alone on that
\* mapping does, and two requests with the same mapping get the same label and
\* the same confidence.
C11_ReadOnlyDeterministic ==
    /\ srv # NoValue =>
          /\ srv.model = savedFrom.model
          /\ srv.feature_order = savedFrom.feature_order
    /\ \A t \in Threads :
          /\ threads[t].pc # "idle" => threads[t].features = threads[t].given
          /\ t \in C11Answered =>
                /\ predict(savedFrom, threads[t].given).err = "none"
                /\ threads[t].prediction = predict(savedFrom, threads[t].given).ret
          /\ threads[t].pc = "failed" =>
                threads[t].err = predict(savedFrom, threads[t].given).err
    /\ \A t, u \in C11Answered :
          threads[t].given = threads[u].given =>
              /\ threads[t].prediction.classification = threads[u].prediction.classification
              /\ threads[t].prediction.confidence = threads[u].prediction.confidence

\* C11 witness: thread 2 is between the two reads of its predict, on another
\* mapping than thread 1, which has its answer from a forest that tells the two
\* mappings apart
C11_Witness ==
    /\ threads[1].pc = "predicted"
    /\ threads[2].pc = "encoded"
    /\ threads[1].given # threads[2].given
    /\ predict(srv, threads[1].given).ret # predict(srv, threads[2].given).ret
    /\ threads[1].prediction = predict(srv, threads[1].given).ret

C12Labels == <<"Tamil", "Hindi", "English", "Malayalam", "Telugu">>

\* the value a test reads: the mapping's, or 0 for a key it lacks
C12Value(k) == IF k \in DOMAIN features THEN features[k] ELSE Fin(0)

C12Test(i) ==
    CASE i = 1 -> FLess(Fin(190000), C12Value("pitch_mean")) /\ FLess(Fin(50), C12Value("energy_std"))
      [] i = 2 -> /\ FLess(Fin(150000), C12Value("pitch_mean"))
                  /\ ~FLess(Fin(190000), C12Value("pitch_mean"))
                  /\ ~isnan(C12Value("pitch_mean"))
                  /\ FLess(Fin(2500000), C12Value("centroid_mean"))
      [] i = 3 -> FLess(C12Value("pitch_std"), Fin(12000)) /\ FLess(C12Value("energy_std"), Fin(30))
      [] i = 4 -> FLess(C12Value("centroid_mean"), Fin(2200000))
                  /\ FLess(C12Value("pitch_mean"), Fin(160000))

\* the label of the first test that holds, Telugu when none does
C12First ==
    IF \E i \in 1..4 : C12Test(i)
    THEN C12Labels[CHOOSE i \in 1..4 : C12Test(i) /\ \A j \in 1..(i - 1) : ~C12Test(j)]
    ELSE C12Labels[5]

\* C12 as stated: at most one of the four tests holds, and detect_language
\* returns the label of the first test that holds, Telugu when none does.
C12_MutuallyExclusive ==
    pc = "detected" =>
        /\ \A i, j \in 1..4 : (C12Test(i) /\ C12Test(j)) => i = j
        /\ language = C12First
        /\ language \in Range(C12Labels)

\* C12 amended: detect_language returns one of the five labels, that of the
\* first test that holds in the order Tamil, Hindi, English, Malayalam, Telugu
\* when none holds; the English test may hold together with the Hindi or the
\* Malayalam one, every other pair of tests excludes each other.
C12_Cascade ==
    pc = "detected" =>
        /\ language = C12First
        /\ language \in Range(C12Labels)
        /\ \A i, j \in 1..4 : (i < j /\ C12Test(i) /\ C12Test(j)) => (j = 3 \/ i = 3)

\* C12 witness: the Hindi and the English test both hold and Hindi is returned
C12_Witness ==
    /\ pc = "detected"
    /\ C12Test(2) /\ C12Test(3)
    /\ language = "Hindi"

\* C13: the body /detect sends holds a confidence in [0, 1], and its
\* classification is AI_GENERATED iff that confidence is at least 0.5.
C13_ResponseKeepsRelation ==
    pc = "responded" =>
        /\ 0 <= response.confidence /\ response.confidence <= 1000
        /\ (response.classification = "AI_GENERATED") <=> (response.confidence >= 500)

\* C14: an artifact train.py saved was fitted on samples of both classes, and
\* the classifier loaded from it answers every complete vector of twelve keys.
C14_TrainedOnBothClasses ==
    /\ disk # NoValue => Range(savedFrom.model.classes) = {0, 1}
    /\ (pc \in {"predicted", "failed"} /\ DOMAIN features = SchemaKeys12) =>
          /\ pc = "predicted"
          /\ err = "none"
          /\ prediction.classification \in {"AI_GENERATED", "HUMAN"}

====
